---- MODULE Spec2Model ----
(***************************************************************************)
(* Model of the proxy endpoints of src/index.js: the CORS middleware, the  *)
(* download relay (GET /api/download/...), the stream relay (GET           *)
(* /api/stream/...) and the events of the upstream body stream piped into  *)
(* the response.  One request is followed from arrival until none of its   *)
(* code is left to run; then the model turns to the next request.          *)
(*                                                                         *)
(* Strings are sequences of tokens.  A raw token is a piece of the request *)
(* target as the client typed it, decodeURIComponent maps it to the piece  *)
(* it decodes to, or fails on it.                                          *)
(***************************************************************************)
EXTENDS Naturals, Sequences, FiniteSets

\* Longest path suffix (in tokens) a client sends after the mount path.
MaxLen == 4
\* Most body chunks an upstream response delivers.
MaxChunks == 2
\* Longest upstream content-disposition value (in tokens).
MaxCd == 5
\* JSON-endpoint requests in flight at once.
MaxApi == 2

\* pc       where the request is: "idle" (none yet), "await" (the handler
\*          awaits axios), "relay" (the body is piped), "done" (no code of
\*          the request is left to run)
\* req      the inbound request
\* res      the response object
\* out      the outbound request of this request, if one was issued
\* up       the upstream response and its body stream (response.data)
\* crashed  an error escaped every handler (uncaught exception)
VARIABLES pc, req, res, out, up, crashed

\* cookiesInitialized, movieboxAppInfo   the two globals of the bootstrap
\* api     the JSON-endpoint requests in flight, by slot
\* bootOk  the number of bootstrap requests that completed successfully
VARIABLES cookiesInitialized, movieboxAppInfo, api, bootOk

\* The state of the proxy request that is followed.
proxy == <<pc, req, res, out, up, crashed>>

\* The bootstrap state and the JSON-endpoint requests.
session == <<cookiesInitialized, movieboxAppInfo, api, bootOk>>

vars == <<proxy, session>>

----------------------------------------------------------------------------
\* JavaScript values

\* The value of a header that is not there (JavaScript's undefined).
Undefined == "<undefined>"

\* if (v): undefined and the empty string are falsy.
Truthy(v) == v # Undefined /\ v # ""

\* String(v), which Express's res.set applies to every value it is given.
String(v) == IF v = Undefined THEN "undefined" ELSE v

----------------------------------------------------------------------------
\* Request targets

SchemeEnc == "https%3A%2F%2F"
SchemeRaw == "https://"
HostB == "bcdnw.hakunaymatata.com"
HostV == "valiw.hakunaymatata.com"
HostE == "evil.example"

\* The pieces a path suffix is made of: the scheme (percent-encoded or not),
\* three hosts, a slash (percent-encoded or not), a doubly encoded slash and
\* a percent sign that starts no escape.
RawTokens == {SchemeEnc, SchemeRaw, HostB, HostV, HostE, "%2F", "/", "%252F", "%"}

Suffixes == UNION {[1..n -> RawTokens] : n \in 0..MaxLen}

DownloadMount == "/api/download/"
StreamMount == "/api/stream/"

\* The two allowed-origin prefixes.
PrefixB == <<SchemeRaw, HostB, "/">>
PrefixV == <<SchemeRaw, HostV, "/">>

\* s.startsWith(p)
StartsWith(s, p) == Len(s) >= Len(p) /\ SubSeq(s, 1, Len(p)) = p

\* s.replace(needle, ''): the first occurrence of needle is removed.
Replace(s, needle) ==
    IF \E i \in 1..Len(s) : s[i] = needle
    THEN LET i == CHOOSE k \in 1..Len(s) :
                      s[k] = needle /\ \A j \in 1..(k - 1) : s[j] # needle
         IN  SubSeq(s, 1, i - 1) \o SubSeq(s, i + 1, Len(s))
    ELSE s

\* decodeURIComponent throws URIError on a percent sign that starts no escape.
Malformed(s) == \E i \in 1..Len(s) : s[i] = "%"

DecodeToken(t) ==
    CASE t = SchemeEnc -> SchemeRaw
      [] t = "%2F"     -> "/"
      [] t = "%252F"   -> "%2F"
      [] OTHER         -> t

\* decodeURIComponent(s), for s that is not Malformed: one pass.
DecodeURIComponent(s) == [i \in 1..Len(s) |-> DecodeToken(s[i])]

\* The URL decoded twice instead of once.
DecodedTwiceUrl(url, mount) ==
    DecodeURIComponent(DecodeURIComponent(Replace(url, mount)))

\* The decoded URL as the handlers compute it from req.url.
DecodedUrl(url, mount) == DecodeURIComponent(Replace(url, mount))

\* The test of lines 406 and 464, negated: the URL is accepted.
Allowed(u) ==
    /\ u # <<>>
    /\ (StartsWith(u, PrefixB) \/ StartsWith(u, PrefixV))

----------------------------------------------------------------------------
\* The response object

HeaderNames == {"Access-Control-Allow-Origin", "Access-Control-Allow-Methods",
                "Access-Control-Allow-Headers", "Content-Type", "Content-Length",
                "Content-Range", "Content-Disposition", "Cache-Control",
                "Accept-Ranges"}

\* A fresh response: status 200 by default, nothing set, nothing sent.
\* closed: the client's connection is gone ('close' before the response
\* was finished).  filename is the name put between the quotes of the Content-Disposition
\* header of a download (<<Undefined>>: no such header was set).
\* wire is the status line written to the client (0: none yet), commits the
\* number of times a status line and headers were written, lateWrites the
\* number of attempts to write a status line and JSON body after that.
NewRes == [statusCode |-> 200,
           headers    |-> [h \in HeaderNames |-> Undefined],
           headersSent |-> FALSE,
           finished   |-> FALSE,
           closed     |-> FALSE,
           wire       |-> 0,
           body       |-> <<>>,
           filename   |-> <<Undefined>>,
           commits    |-> 0,
           lateWrites |-> 0]

\* res.set(field, value) / res.header(field, value)
Set(r, field, value) == [r EXCEPT !.headers[field] = String(value)]

\* res.status(code)
Status(r, code) == [r EXCEPT !.statusCode = code]

\* The status line and the headers go out with the first write.
Flush(r) ==
    IF r.headersSent THEN r
    ELSE [r EXCEPT !.headersSent = TRUE, !.wire = r.statusCode, !.commits = @ + 1]

\* res.send(body) and res.json(body): a complete response.  Once the headers
\* are out the call cannot set them again; it is counted as a late write.
Send(r, ctype, body) ==
    IF r.headersSent
    THEN [r EXCEPT !.lateWrites = @ + 1]
    ELSE [Flush(Set(Set(r, "Content-Type", ctype), "Content-Length", "body-length"))
            EXCEPT !.body = <<body>>, !.finished = TRUE]

Json(r, message) == Send(r, "application/json", message)

\* A write whose first call only sends the headers.
WriteHeadersOnly(r, chunk) ==
    IF r.finished THEN r
    ELSE IF r.headersSent THEN [r EXCEPT !.body = Append(@, chunk)]
    ELSE Flush(r)

\* res.write(chunk), as pipe() calls it for each chunk of the source.
Write(r, chunk) ==
    IF r.finished THEN r ELSE [Flush(r) EXCEPT !.body = Append(@, chunk)]

\* res.end(), as pipe() calls it when the source ends.
End(r) == [Flush(r) EXCEPT !.finished = TRUE]

----------------------------------------------------------------------------
\* The filename of a download (lines 426-436)

\* A content-disposition value is a sequence of tokens: the text
\* 'filename=', a double quote, a semicolon, the two directory separators,
\* a blank, and two pieces of a name.
CdTokens == {"filename=", "\"", ";", "/", "\\", " ", "a", "b.mp4"}

\* The header is absent: response.headers['content-disposition'] is
\* undefined.
NoHeader == <<Undefined>>

ContentDispositions == {NoHeader} \cup UNION {[1..n -> CdTokens] : n \in 0..MaxCd}

\* let filename = 'Movie_by_GiftedTech.mp4'
Fallback == <<"Movie_by_GiftedTech.mp4">>

\* The places where /filename="([^"]+)"/ matches: 'filename=', a quote, one
\* or more tokens that are no quote, a quote.
QuotedAt(s) ==
    {i \in 1..Len(s) :
        /\ s[i] = "filename="
        /\ i + 3 <= Len(s)
        /\ s[i + 1] = "\""
        /\ s[i + 2] # "\""
        /\ \E j \in (i + 3)..Len(s) : s[j] = "\""}

\* The places where /filename=([^;]+)/ matches: 'filename=', then one or
\* more tokens that are no semicolon.
UnquotedAt(s) ==
    {i \in 1..Len(s) : s[i] = "filename=" /\ i + 1 <= Len(s) /\ s[i + 1] # ";"}

Leftmost(S) == CHOOSE i \in S : \A j \in S : i <= j

\* The longest run of tokens of s from position from on that holds none
\* of stop.
Run(s, from, stop) ==
    LET ends == {j \in from..Len(s) : s[j] \in stop}
        last == IF ends = {} THEN Len(s) ELSE Leftmost(ends) - 1
    IN  SubSeq(s, from, last)

\* filenameMatch[1] of the first pattern, where it matches.
QuotedName(s) == Run(s, Leftmost(QuotedAt(s)) + 2, {"\""})

\* filenameMatch[1] of the second pattern, where it matches.
UnquotedName(s) == Run(s, Leftmost(UnquotedAt(s)) + 1, {";"})

\* s.trim()
Trim(s) ==
    LET solid == {i \in 1..Len(s) : s[i] # " "}
    IN  IF solid = {} THEN <<>>
        ELSE SubSeq(s, Leftmost(solid), CHOOSE i \in solid : \A j \in solid : j <= i)

\* s.split(/[\\/]/).pop(): what follows the last separator.
LastComponent(s) ==
    LET seps == {i \in 1..Len(s) : s[i] \in {"/", "\\"}}
    IN  IF seps = {} THEN s
        ELSE SubSeq(s, (CHOOSE i \in seps : \A j \in seps : j <= i) + 1, Len(s))

\* The second pattern tried first.
FilenameUnquotedFirst(cd) ==
    IF cd = NoHeader \/ cd = <<>> THEN Fallback
    ELSE IF UnquotedAt(cd) # {} THEN LastComponent(Trim(UnquotedName(cd)))
    ELSE IF QuotedAt(cd) # {} THEN LastComponent(Trim(QuotedName(cd)))
    ELSE Fallback

\* The filename the download handler computes from the upstream's
\* content-disposition.
Filename(cd) ==
    IF cd = NoHeader \/ cd = <<>> THEN Fallback
    ELSE IF QuotedAt(cd) # {} THEN LastComponent(Trim(QuotedName(cd)))
    ELSE IF UnquotedAt(cd) # {} THEN LastComponent(Trim(UnquotedName(cd)))
    ELSE Fallback

----------------------------------------------------------------------------
\* Inputs

\* Inbound Range headers: none, one with an empty value, two byte ranges.
Ranges == {Undefined, "", "bytes=100-199", "bytes=0-"}

\* Upstream status codes: full, partial, another 2xx, a non-2xx.
Statuses == {200, 206, 204, 404}

ContentRanges == {Undefined, "bytes 100-199/1000"}
ContentLengths == {Undefined, "100"}

\* The content-disposition values of the upstream answers to the requests
\* followed from arrival: none, an unquoted name, a quoted path, a name
\* that ends with a separator.
SomeContentDispositions ==
    {NoHeader,
     <<"filename=", "b.mp4">>,
     <<"filename=", "\"", "a", "/", "b.mp4", "\"">>,
     <<"filename=", "a", "/">>}

\* What an upstream may answer: status and the headers the handlers read.
Responses == [status : Statuses, crange : ContentRanges, clen : ContentLengths,
              cdisp : SomeContentDispositions]

NoOut == [n |-> 0, url |-> <<>>, range |-> Undefined, timeout |-> 0]

\* The body chunks of an upstream response, in the order it sends them.
Chunks == <<"chunk1", "chunk2", "chunk3", "chunk4">>

\* state: "none", "pending" (the request is out, no answer yet), "rejected"
\* (axios rejected), "flowing", "paused" (open, read by nobody), "ended",
\* "errored".  emitted counts the
\* chunks response.data has emitted; errorListeners are the 'error'
\* listeners the handler registered on response.data; errAt tells whether
\* the stream's error came "before" or "after" the response headers were
\* sent; handledBy names the listeners that ran on it.  status, crange,
\* clen and cdisp are the status and the content-range, content-length and
\* content-disposition headers of the answer.
NoUp == [state |-> "none", status |-> 0, crange |-> Undefined, clen |-> Undefined,
         cdisp |-> NoHeader, emitted |-> 0, piped |-> FALSE, errorListeners |-> {},
         errAt |-> "none", handledBy |-> {}]

Pending == [NoUp EXCEPT !.state = "pending"]

\* axios: the timeout of the stream request, in milliseconds.
StreamTimeout == 30000

\* axios's default validateStatus: the promise resolves on 2xx only.
ValidateStatus(status) == status >= 200 /\ status < 300


----------------------------------------------------------------------------
\* Middleware and handlers

\* A proxy handler that went through the bootstrap like the JSON endpoints.
SessionBootstrapped ==
    /\ cookiesInitialized' = TRUE
    /\ UNCHANGED <<movieboxAppInfo, api, bootOk>>

\* What the proxy handlers and the events of their streams do to the
\* bootstrap state and to the JSON-endpoint requests: they call neither
\* ensureCookiesAreAssigned nor makeApiRequest and assign no global.
NoSessionUse == UNCHANGED session

\* The headers the CORS middleware sets on every response.
Cors(r) ==
    Set(Set(Set(r, "Access-Control-Allow-Origin", "*"),
            "Access-Control-Allow-Methods", "GET, POST, PUT, DELETE, OPTIONS"),
        "Access-Control-Allow-Headers",
        "Origin, X-Requested-With, Content-Type, Accept, Authorization")

\* res.sendStatus(code): the status with its reason phrase as the body.
SendStatus(r, code) == Send(Status(r, code), "text/plain", "OK")

\* The response of app.options('/api/stream/*') to a request that reaches it.
\* The route is registered after the CORS middleware.
OptionsStreamHandler(r) ==
    End(Status(Set(Set(Set(r, "Access-Control-Allow-Origin", "*"),
                       "Access-Control-Allow-Methods", "GET, OPTIONS"),
                   "Access-Control-Allow-Headers", "Range"),
               200))

\* An OPTIONS request: the CORS middleware answers it and does not call
\* next(), so no route registered after it sees the request.
Options(mount, suffix, range) ==
    /\ req' = [method |-> "OPTIONS", mount |-> mount,
               url |-> <<mount>> \o suffix, range |-> range]
    /\ res' = SendStatus(Cors(NewRes), 200)
    /\ out' = NoOut
    /\ up' = NoUp
    /\ pc' = "done"
    /\ UNCHANGED crashed
    /\ NoSessionUse

\* The error-handling middleware, which Express runs on an error passed to
\* next(): no test of res.headersSent.
ErrorMiddleware(r) == Json(Status(r, 500), "Internal server error")

\* catch of the download handler: no test of res.headersSent.
DownloadCatch(r) == Json(Status(r, 500), "Failed to proxy download")

\* catch of the stream handler.
StreamCatch(r) ==
    IF ~r.headersSent THEN Json(Status(r, 500), "Failed to proxy stream") ELSE r

\* GET /api/download/*, to the await of axios.  A malformed escape makes
\* decodeURIComponent throw inside the handler's try (the escape is in the
\* query string, which req.url holds), or makes Express fail to decode the
\* route's parameter and pass the error to the error-handling middleware
\* (the escape is in the path): the token "%" stands for both.
GetDownload(suffix) ==
    /\ LET url == <<DownloadMount>> \o suffix
           r0  == Cors(NewRes)
       IN  /\ req' = [method |-> "GET", mount |-> DownloadMount,
                      url |-> url, range |-> Undefined]
           /\ IF Malformed(Replace(url, DownloadMount))
              THEN /\ res' \in {DownloadCatch(r0), ErrorMiddleware(r0)}
                   /\ out' = NoOut
                   /\ up' = NoUp
                   /\ pc' = "done"
              ELSE IF ~Allowed(DecodedUrl(url, DownloadMount))
              THEN /\ res' = Json(Status(r0, 400), "Invalid download URL")
                   /\ out' = NoOut
                   /\ up' = NoUp
                   /\ pc' = "done"
              ELSE /\ res' = r0
                   /\ up' = Pending
                   /\ out' = [n |-> 1, url |-> DecodedUrl(url, DownloadMount),
                              range |-> Undefined, timeout |-> 0]
                   /\ pc' = "await"
    /\ UNCHANGED crashed
    /\ NoSessionUse

\* The Range header of the outbound request (Undefined: none).
ForwardedRange(range) == IF Truthy(range) THEN range ELSE Undefined

\* GET /api/stream/*, to the await of axios.  A malformed escape: as in
\* GetDownload.
GetStream(suffix, range) ==
    /\ LET url == <<StreamMount>> \o suffix
           r0  == Cors(NewRes)
       IN  /\ req' = [method |-> "GET", mount |-> StreamMount,
                      url |-> url, range |-> range]
           /\ IF Malformed(Replace(url, StreamMount))
              THEN /\ res' \in {StreamCatch(r0), ErrorMiddleware(r0)}
                   /\ out' = NoOut
                   /\ up' = NoUp
                   /\ pc' = "done"
              ELSE IF ~Allowed(DecodedUrl(url, StreamMount))
              THEN /\ res' = Json(Status(r0, 400), "Invalid stream URL")
                   /\ out' = NoOut
                   /\ up' = NoUp
                   /\ pc' = "done"
              ELSE /\ res' = r0
                   /\ up' = Pending
                   /\ out' = [n |-> 1, url |-> DecodedUrl(url, StreamMount),
                              range |-> ForwardedRange(range),
                              timeout |-> StreamTimeout]
                   /\ pc' = "await"
    /\ UNCHANGED crashed
    /\ NoSessionUse

----------------------------------------------------------------------------
\* The answer of axios

\* catch of the handler that awaits.
Catch(r) == IF req.mount = DownloadMount THEN DownloadCatch(r) ELSE StreamCatch(r)

Rejected(resp) == [NoUp EXCEPT !.state = "rejected", !.status = resp.status,
                               !.crange = resp.crange, !.clen = resp.clen]

\* response.data of a resolved request, before the handler touches it.
Flowing(resp) == [NoUp EXCEPT !.state = "flowing", !.status = resp.status,
                              !.crange = resp.crange, !.clen = resp.clen,
                              !.cdisp = resp.cdisp]

\* The upstream answers with a status axios rejects: the handler's catch.
AxiosRejectStatus(resp) ==
    /\ pc = "await"
    /\ ~ValidateStatus(resp.status)
    /\ res' = Catch(res)
    /\ up' = Rejected(resp)
    /\ pc' = "done"
    /\ UNCHANGED <<req, out, crashed>>
    /\ NoSessionUse

\* No answer: connection refused, reset, DNS failure.
AxiosRejectNetwork ==
    /\ pc = "await"
    /\ res' = Catch(res)
    /\ up' = [NoUp EXCEPT !.state = "rejected"]
    /\ pc' = "done"
    /\ UNCHANGED <<req, out, crashed>>
    /\ NoSessionUse

\* No answer within the timeout of the request, when it has one.
AxiosRejectTimeout ==
    /\ pc = "await"
    /\ out.timeout > 0
    /\ res' = Catch(res)
    /\ up' = [NoUp EXCEPT !.state = "rejected"]
    /\ pc' = "done"
    /\ UNCHANGED <<req, out, crashed>>
    /\ NoSessionUse

\* The download handler after axios resolved: headers, then pipe.  No
\* 'error' listener is registered on response.data.
DownloadResponse(resp) ==
    /\ pc = "await"
    /\ req.mount = DownloadMount
    /\ ValidateStatus(resp.status)
    /\ res' = [Set(Set(Set(res, "Content-Type", "video/mp4"),
                       "Content-Length", resp.clen),
                   "Content-Disposition", "attachment; filename=\"${filename}\"")
                 EXCEPT !.filename = Filename(resp.cdisp)]
    /\ up' = [Flowing(resp) EXCEPT !.piped = TRUE]
    /\ pc' = "relay"
    /\ UNCHANGED <<req, out, crashed>>
    /\ NoSessionUse

\* The headers every relayed stream response gets (lines 500-507).
StreamHeaders(r) ==
    Set(Set(Set(Set(Set(Set(r, "Content-Type", "video/mp4"),
                            "Content-Disposition", "inline; filename=\"stream.mp4\""),
                        "Cache-Control", "public, max-age=3600"),
                    "Accept-Ranges", "bytes"),
                "Access-Control-Allow-Origin", "*"),
        "Access-Control-Allow-Headers", "Range")

\* Partial and full content (lines 509-521), on a response of status 200
\* or 206.
Classify(r, resp) ==
    IF resp.status = 206 /\ Truthy(resp.crange)
    THEN Set(Set(Status(r, 206), "Content-Range", resp.crange),
             "Content-Length", resp.clen)
    ELSE IF resp.status = 200 /\ Truthy(resp.clen)
    THEN Set(Status(r, 200), "Content-Length", resp.clen)
    ELSE r

\* Every status axios resolves on, relayed.
RelayAny2xx(status) == TRUE

\* The statuses the stream handler relays (line 498).
Relayed(status) == status = 200 \/ status = 206

\* The stream handler after axios resolved.
StreamResponse(resp) ==
    /\ pc = "await"
    /\ req.mount = StreamMount
    /\ ValidateStatus(resp.status)
    /\ IF Relayed(resp.status)
       THEN /\ res' = Classify(StreamHeaders(res), resp)
            /\ up' = [Flowing(resp) EXCEPT !.piped = TRUE,
                                            !.errorListeners = {"streamError"}]
            /\ pc' = "relay"
       ELSE /\ res' = StreamCatch(res)
            /\ up' = Rejected(resp)
            /\ pc' = "done"
    /\ UNCHANGED <<req, out, crashed>>
    /\ NoSessionUse

----------------------------------------------------------------------------
\* The events of response.data while it is piped into res

\* 'data': pipe() writes the chunk to res.
UpstreamData ==
    /\ pc = "relay"
    /\ up.state = "flowing"
    /\ up.emitted < MaxChunks
    /\ res' = Write(res, Chunks[up.emitted + 1])
    /\ up' = [up EXCEPT !.emitted = @ + 1]
    /\ UNCHANGED <<pc, req, out, crashed>>
    /\ NoSessionUse

\* 'end': pipe() ends res.
UpstreamEnd ==
    /\ pc = "relay"
    /\ up.state = "flowing"
    /\ res' = End(res)
    /\ up' = [up EXCEPT !.state = "ended"]
    /\ pc' = "done"
    /\ UNCHANGED <<req, out, crashed>>
    /\ NoSessionUse

\* The listener without its test of res.headersSent.
ErrorListenerUnguarded(r) == Json(Status(r, 500), "Stream error occurred")

\* The 'error' listener of the stream handler (lines 527-535).
ErrorListener(r) ==
    IF ~r.headersSent THEN Json(Status(r, 500), "Stream error occurred") ELSE r

Errored == [up EXCEPT !.state = "errored",
                      !.errAt = IF res.headersSent THEN "after" ELSE "before"]

\* 'error' with the stream handler's listener registered.  pipe() does not
\* end or destroy its destination when the source fails.
UpstreamError ==
    /\ pc = "relay"
    /\ up.state = "flowing"
    /\ up.errorListeners # {}
    /\ res' = ErrorListener(res)
    /\ up' = [Errored EXCEPT !.handledBy = up.errorListeners]
    /\ pc' = "done"
    /\ UNCHANGED <<req, out, crashed>>
    /\ NoSessionUse

\* 'error' with no listener the handler registered (the download relay).
\* An EventEmitter throws an 'error' nobody listens to, which ends the
\* process as an uncaught exception; a source that keeps the error to itself
\* when nobody listens just stops.  Either way no code of the request runs.
UpstreamErrorUnhandled ==
    /\ pc = "relay"
    /\ up.state = "flowing"
    /\ up.errorListeners = {}
    /\ crashed' \in BOOLEAN
    /\ up' = Errored
    /\ pc' = "done"
    /\ UNCHANGED <<req, res, out>>
    /\ NoSessionUse

\* The client disconnects while the body is relayed: res emits 'close',
\* on which pipe() unpipes the source and, nothing else reading it, the
\* source pauses.  The handlers register no 'close' listener on req or res
\* and never abort or destroy response.data.
ClientDisconnect ==
    /\ pc = "relay"
    /\ up.state = "flowing"
    /\ res' = [res EXCEPT !.closed = TRUE]
    /\ up' = [up EXCEPT !.state = "paused", !.piped = FALSE]
    /\ pc' = "done"
    /\ UNCHANGED <<req, out, crashed>>
    /\ NoSessionUse

----------------------------------------------------------------------------
\* The bootstrap and the JSON endpoints

Endpoints == {"homepage", "trending", "search", "info", "sources"}

\* processApiResponse of the bootstrap's answer, as two upstreams may give it.
AppInfos == {"app-pkgs-1", "app-pkgs-2"}

\* let movieboxAppInfo = null
Null == "null"

\* A slot with no request.  pc: "idle", "boot" (awaits the bootstrap
\* request inside ensureCookiesAreAssigned), "call" (awaits its API
\* request), "done".  calls counts the API requests the request has issued,
\* boots its bootstrap requests; boot is how the bootstrap it awaited
\* ended ("none", "ok", "failed"); detailPath is what the detail call of
\* /api/sources gave; status is the status the client got (0: none yet).
NoApi == [pc |-> "idle", endpoint |-> "homepage", calls |-> 0, boots |-> 0,
          boot |-> "none", detailPath |-> Undefined, status |-> 0]

Slots == 1..MaxApi

SessionInit ==
    /\ cookiesInitialized = FALSE
    /\ movieboxAppInfo = Null
    /\ api = [i \in Slots |-> NoApi]
    /\ bootOk = 0

\* The answers to an API request that axios resolves: the content inside
\* a data envelope or bare, with or without a subject, whose detailPath is
\* absent, empty or a path.
ApiResponses == [envelope : BOOLEAN, subject : BOOLEAN,
                 detailPath : {Undefined, "", "movie-path"}]

\* processApiResponse: response.data.data if there is one, else
\* response.data.
ProcessApiResponse(response) ==
    [subject |-> response.subject, detailPath |-> response.detailPath]

\* movieInfo?.subject?.detailPath
DetailPath(movieInfo) ==
    IF movieInfo.subject THEN movieInfo.detailPath ELSE Undefined

\* makeApiRequest / makeApiRequestWithCookies, to their first await:
\* ensureCookiesAreAssigned sends the bootstrap request if
\* cookiesInitialized is false, otherwise the API request goes out.
MakeApiRequest(a) ==
    IF ~cookiesInitialized
    THEN [a EXCEPT !.pc = "boot", !.boots = @ + 1]
    ELSE [a EXCEPT !.pc = "call", !.calls = @ + 1]

\* catch of a JSON endpoint's handler: res.status(500).json(...)
ApiCatch(a) == [a EXCEPT !.pc = "done", !.status = 500]

\* A request arrives at a JSON endpoint; its handler runs to its first
\* await.
ApiArrive(i, e) ==
    /\ api[i].pc = "idle"
    /\ api' = [api EXCEPT ![i] = MakeApiRequest([NoApi EXCEPT !.endpoint = e])]
    /\ UNCHANGED <<cookiesInitialized, movieboxAppInfo, bootOk>>
    /\ UNCHANGED proxy

\* The bootstrap request of slot i succeeds (lines 98-99); then
\* ensureCookiesAreAssigned returns and the API request goes out.
BootstrapOk(i, info) ==
    /\ api[i].pc = "boot"
    /\ movieboxAppInfo' = info
    /\ cookiesInitialized' = TRUE
    /\ bootOk' = bootOk + 1
    /\ api' = [api EXCEPT ![i] = [@ EXCEPT !.pc = "call", !.calls = @ + 1,
                                            !.boot = "ok"]]
    /\ UNCHANGED proxy

\* A failed bootstrap recorded as done.
BootstrapFailCached(i) ==
    /\ api[i].pc = "boot"
    /\ cookiesInitialized' = TRUE
    /\ api' = [api EXCEPT ![i] = ApiCatch([@ EXCEPT !.boot = "failed"])]
    /\ UNCHANGED <<movieboxAppInfo, bootOk>>
    /\ UNCHANGED proxy

\* A failed bootstrap swallowed: the API request goes out all the same.
BootstrapFailSwallowed(i) ==
    /\ api[i].pc = "boot"
    /\ api' = [api EXCEPT ![i] = [@ EXCEPT !.pc = "call", !.calls = @ + 1,
                                            !.boot = "failed"]]
    /\ UNCHANGED <<cookiesInitialized, movieboxAppInfo, bootOk>>
    /\ UNCHANGED proxy

\* The bootstrap request of slot i fails: ensureCookiesAreAssigned rethrows
\* (lines 105-108), makeApiRequest rejects, the handler's catch answers 500.
BootstrapFail(i) ==
    /\ api[i].pc = "boot"
    /\ api' = [api EXCEPT ![i] = ApiCatch([@ EXCEPT !.boot = "failed"])]
    /\ UNCHANGED <<cookiesInitialized, movieboxAppInfo, bootOk>>
    /\ UNCHANGED proxy

DetailNeverMissing(detailPath) == FALSE

\* if (!detailPath)
DetailMissing(detailPath) == ~Truthy(detailPath)

\* The API request of slot i is answered.  /api/sources, on the answer to
\* its detail request, throws without a detailPath and otherwise makes its
\* download-sources request.  Every other answer is shaped and ends in
\* res.json(...), or in the catch if the shaping throws on content of an
\* unexpected type (content.items.filter, content.downloads.map).
ApiOk(i, response) ==
    /\ api[i].pc = "call"
    /\ LET a == api[i]
           detailPath == DetailPath(ProcessApiResponse(response))
           after ==
               IF a.endpoint = "sources" /\ a.calls = 1
               THEN IF DetailMissing(detailPath)
                    THEN {ApiCatch([a EXCEPT !.detailPath = detailPath])}
                    ELSE {MakeApiRequest([a EXCEPT !.detailPath = detailPath])}
               ELSE {[a EXCEPT !.pc = "done", !.status = 200], ApiCatch(a)}
       IN  \E n \in after : api' = [api EXCEPT ![i] = n]
    /\ UNCHANGED <<cookiesInitialized, movieboxAppInfo, bootOk>>
    /\ UNCHANGED proxy

\* The API request of slot i fails: the handler's catch answers 500.
ApiFail(i) ==
    /\ api[i].pc = "call"
    /\ api' = [api EXCEPT ![i] = ApiCatch(@)]
    /\ UNCHANGED <<cookiesInitialized, movieboxAppInfo, bootOk>>
    /\ UNCHANGED proxy

\* The request of slot i is over; the slot takes the next request.
ApiRelease(i) ==
    /\ api[i].pc = "done"
    /\ api' = [api EXCEPT ![i] = NoApi]
    /\ UNCHANGED <<cookiesInitialized, movieboxAppInfo, bootOk>>
    /\ UNCHANGED proxy

----------------------------------------------------------------------------

NoReq == [method |-> "GET", mount |-> StreamMount, url |-> <<>>, range |-> Undefined]

\* The request has no code left to run and the process is alive: the model
\* turns to the next request.  Nothing of one proxy request is kept for the
\* next (the handlers use no variable outside the request).
NextRequest ==
    /\ pc = "done"
    /\ ~crashed
    /\ pc' = "idle"
    /\ req' = NoReq
    /\ res' = NewRes
    /\ out' = NoOut
    /\ up' = NoUp
    /\ UNCHANGED crashed
    /\ NoSessionUse

\* A request arrives at a process that is alive and follows no request;
\* Express runs the CORS middleware and the route's handler on it.
Arrive ==
    /\ pc = "idle"
    /\ ~crashed
    /\ \/ \E m \in {DownloadMount, StreamMount}, s \in Suffixes, r \in Ranges :
              Options(m, s, r)
       \/ \E s \in Suffixes : GetDownload(s)
       \/ \E s \in Suffixes, r \in Ranges : GetStream(s, r)

Init ==
    /\ pc = "idle"
    /\ req = NoReq
    /\ res = NewRes
    /\ out = NoOut
    /\ up = NoUp
    /\ crashed = FALSE
    /\ SessionInit

Next ==
    \/ Arrive
    \/ \E resp \in Responses : AxiosRejectStatus(resp)
    \/ AxiosRejectNetwork
    \/ AxiosRejectTimeout
    \/ \E resp \in Responses : DownloadResponse(resp)
    \/ \E resp \in Responses : StreamResponse(resp)
    \/ UpstreamData
    \/ UpstreamEnd
    \/ UpstreamError
    \/ UpstreamErrorUnhandled
    \/ ClientDisconnect
    \/ NextRequest

Spec == Init /\ [][Next]_vars

----------------------------------------------------------------------------
\* The JSON endpoints alone: up to MaxApi requests in flight, in any
\* interleaving of their awaits.

ApiNext ==
    \/ \E i \in Slots, e \in Endpoints : ApiArrive(i, e)
    \/ \E i \in Slots, info \in AppInfos : BootstrapOk(i, info)
    \/ \E i \in Slots : BootstrapFail(i)
    \/ \E i \in Slots, response \in ApiResponses : ApiOk(i, response)
    \/ \E i \in Slots : ApiFail(i)
    \/ \E i \in Slots : ApiRelease(i)

ApiSpec == Init /\ [][ApiNext]_vars

----------------------------------------------------------------------------
\* Proxy requests interleaved with JSON-endpoint requests: a valid, a
\* foreign and a malformed target, upstream answers without a
\* content-disposition, and one JSON-endpoint request at a time.

SampleSuffixes == {<<SchemeEnc, HostB, "%2F">>, <<SchemeEnc, HostE, "%2F">>, <<"%">>}

SampleRanges == {Undefined, "bytes=0-"}

SampleResponses == {resp \in Responses : resp.cdisp = NoHeader}

SampleEndpoints == {"homepage", "sources"}

FirstSlot == CHOOSE i \in Slots : \A j \in Slots : i <= j

MixedArrive ==
    /\ pc = "idle"
    /\ ~crashed
    /\ \/ \E m \in {DownloadMount, StreamMount}, s \in SampleSuffixes,
              r \in SampleRanges : Options(m, s, r)
       \/ \E s \in SampleSuffixes : GetDownload(s)
       \/ \E s \in SampleSuffixes, r \in SampleRanges : GetStream(s, r)

MixedNext ==
    \/ MixedArrive
    \/ \E resp \in SampleResponses : AxiosRejectStatus(resp)
    \/ AxiosRejectNetwork
    \/ AxiosRejectTimeout
    \/ \E resp \in SampleResponses : DownloadResponse(resp)
    \/ \E resp \in SampleResponses : StreamResponse(resp)
    \/ UpstreamData
    \/ UpstreamEnd
    \/ UpstreamError
    \/ UpstreamErrorUnhandled
    \/ ClientDisconnect
    \/ NextRequest
    \/ \E e \in SampleEndpoints : ApiArrive(FirstSlot, e)
    \/ \E info \in AppInfos : BootstrapOk(FirstSlot, info)
    \/ BootstrapFail(FirstSlot)
    \/ \E response \in ApiResponses : ApiOk(FirstSlot, response)
    \/ ApiFail(FirstSlot)
    \/ ApiRelease(FirstSlot)

MixedSpec == Init /\ [][MixedNext]_vars

----------------------------------------------------------------------------
\* The download handler on every content-disposition: a download request
\* for an allowed URL awaits axios, and the upstream answers 200 with any
\* content-disposition value of up to MaxCd tokens.

FilenameInit ==
    /\ pc = "await"
    /\ req = [method |-> "GET", mount |-> DownloadMount,
              url |-> <<DownloadMount, SchemeEnc, HostB, "%2F">>, range |-> Undefined]
    /\ res = Cors(NewRes)
    /\ out = [n |-> 1, url |-> PrefixB, range |-> Undefined, timeout |-> 0]
    /\ up = Pending
    /\ crashed = FALSE
    /\ SessionInit

FilenameNext ==
    /\ pc = "await"
    /\ \E cd \in ContentDispositions :
           DownloadResponse([status |-> 200, crange |-> Undefined, clen |-> "100",
                             cdisp |-> cd])

FilenameSpec == FilenameInit /\ [][FilenameNext]_vars

----------------------------------------------------------------------------
\* Properties

\* The path suffix of the request: what follows the mount path.
PathSuffix == Tail(req.url)

IsGet == pc # "idle" /\ req.method = "GET"

IsStreamGet == IsGet /\ req.mount = StreamMount

\* C1: a GET on either proxy endpoint whose path suffix, decoded once, is
\* empty or starts with neither allowed origin is answered 400, and no
\* upstream request is issued for it.
C1_InvalidUrlRejected ==
    (/\ IsGet
     /\ ~Malformed(PathSuffix)
     /\ LET u == DecodeURIComponent(PathSuffix)
        IN  \/ u = <<>>
            \/ /\ ~StartsWith(u, <<"https://", "bcdnw.hakunaymatata.com", "/">>)
               /\ ~StartsWith(u, <<"https://", "valiw.hakunaymatata.com", "/">>))
    => (pc = "done" /\ res.wire = 400 /\ res.finished /\ out.n = 0
        /\ up.state = "none")

\* A suffix that one decoding leaves outside the allow-list and a second
\* decoding would bring inside it, rejected.
C1_Witness ==
    /\ IsGet
    /\ PathSuffix = <<SchemeEnc, HostB, "%252F">>
    /\ res.wire = 400
    /\ out.n = 0

\* C2: a GET on either proxy endpoint whose path suffix has a malformed
\* escape is answered 400, issues no upstream request and does not crash.
C2_MalformedIsInvalidInput ==
    (IsGet /\ Malformed(PathSuffix))
    => (res.wire = 400 /\ out.n = 0 /\ ~crashed)

\* C3: an OPTIONS request to /api/stream/<suffix> is answered 200 with an
\* empty body and Access-Control-Allow-Headers: Range.
C3_OptionsStream ==
    (pc = "done" /\ req.method = "OPTIONS" /\ req.mount = StreamMount)
    => (/\ res.wire = 200
        /\ res.body = <<>>
        /\ res.headers["Access-Control-Allow-Headers"] = "Range")

\* C4: the outbound request of a stream request carries a Range header if
\* and only if the inbound request carries one, with the same value.
C4_RangeForwarded ==
    (IsStreamGet /\ out.n > 0) => out.range = req.range

\* The upstream's body is being or was relayed (not replaced by an error
\* response).
BodyRelayed ==
    /\ up.state \in {"flowing", "paused", "ended", "errored"}
    /\ res.headersSent
    /\ up.errAt # "before"

\* C5: a stream response relayed from an upstream 200 or 206 goes out under
\* the upstream's status; on 206 with the upstream's Content-Range and
\* Content-Length, on 200 with its Content-Length, where the upstream
\* supplied them.
C5_StatusMirrored ==
    (IsStreamGet /\ up.status \in {200, 206} /\ BodyRelayed)
    => (/\ res.wire = up.status
        /\ (up.status = 206 /\ up.crange # Undefined)
               => res.headers["Content-Range"] = up.crange
        /\ up.clen # Undefined => res.headers["Content-Length"] = up.clen)

\* C6: an upstream answer to a stream request with a status other than 200
\* and 206 is never relayed: the body is not piped, no chunk reaches the
\* client, and the client gets 500.
C6_UnexpectedStatusNotRelayed ==
    (IsStreamGet /\ up.status \notin {0, 200, 206})
    => (/\ ~up.piped
        /\ \A i \in 1..Len(res.body) : res.body[i] \notin {Chunks[k] : k \in 1..Len(Chunks)}
        /\ res.wire = 500
        /\ res.finished)

\* A 2xx status that is neither 200 nor 206, answered 500.
C6_Witness ==
    /\ IsStreamGet
    /\ up.status = 204
    /\ res.wire = 500

\* C7: once the body stream of a stream relay has failed after the response
\* headers were sent and no code of the request is left to run, the
\* response has been terminated.  (No code of the handlers destroys the
\* response or its socket; ending it is the only termination there is.)
C7_MidStreamErrorTerminates ==
    (pc = "done" /\ req.mount = StreamMount /\ up.errAt = "after")
    => res.finished

\* C8: at most one response is committed, and nothing tries to write a
\* status line or a JSON body once the headers are out.
C8_SingleResponse == res.commits <= 1 /\ res.lateWrites = 0

\* The stream's error listener has run after the headers were sent.
C8_Witness ==
    /\ up.errAt = "after"
    /\ up.handledBy # {}
    /\ res.commits = 1
    /\ Len(res.body) > 0

\* C9: for a valid URL, an upstream failure before anything was sent
\* downstream ends in exactly one complete JSON 500 response.
C9_EarlyFailureIsJson500 ==
    (/\ pc = "done"
     /\ out.n > 0
     /\ \/ up.state = "rejected"
        \/ up.state = "errored" /\ up.errAt = "before")
    => (/\ res.wire = 500
        /\ res.commits = 1
        /\ res.finished
        /\ res.headers["Content-Type"] = "application/json")

\* C10: an error of the upstream body stream is handled by a listener the
\* request's handler registered, and the process never crashes.
C10_NoUnhandledError ==
    /\ ~crashed
    /\ up.state = "errored" => up.handledBy # {}

\* A download whose headers the handler has set.
DownloadRelayed == req.mount = DownloadMount /\ res.filename # <<Undefined>>

\* The name the patterns extract from the upstream's content-disposition:
\* the quoted pattern's if it matches, otherwise the unquoted pattern's.
ExtractedName ==
    IF QuotedAt(up.cdisp) # {} THEN QuotedName(up.cdisp) ELSE UnquotedName(up.cdisp)

NothingExtracted ==
    \/ up.cdisp = NoHeader
    \/ QuotedAt(up.cdisp) = {} /\ UnquotedAt(up.cdisp) = {}

HasSeparator(s) == \E i \in 1..Len(s) : s[i] \in {"/", "\\"}

\* C11 as stated: the downstream filename is the final path component of
\* the extracted name, and the fallback when nothing is extracted.
C11_FilenameIsLastComponent ==
    DownloadRelayed
    => /\ res.filename = IF NothingExtracted THEN Fallback
                          ELSE LastComponent(ExtractedName)
       /\ ~HasSeparator(res.filename)

\* C11, amended: the downstream filename is the final path component
\* (after the last '/' or '\') of the extracted name with the white space
\* at its two ends removed; it never holds a separator; it is the fallback
\* when the header is absent or neither pattern matches.
C11_FilenameIsLastComponentOfTrimmed ==
    DownloadRelayed
    => /\ res.filename = IF NothingExtracted THEN Fallback
                          ELSE LastComponent(Trim(ExtractedName))
       /\ ~HasSeparator(res.filename)

\* A quoted name with a directory in front, cut to its last component.
C11_Witness ==
    /\ DownloadRelayed
    /\ QuotedAt(up.cdisp) # {}
    /\ HasSeparator(ExtractedName)
    /\ res.filename = <<"b.mp4">>

HasQuote(s) == \E i \in 1..Len(s) : s[i] = "\""

\* C21: on a download relay the filename put in the downstream
\* Content-Disposition header is not empty and holds no double quote,
\* whatever the upstream's content-disposition.
C21_FilenameWellFormed ==
    DownloadRelayed => res.filename # <<>> /\ ~HasQuote(res.filename)

\* The connection to the upstream is open.
UpstreamOpen == up.state \in {"pending", "flowing", "paused"}

\* C12: once the client has disconnected during the relay and no code of
\* the request is left to run, the upstream connection of the request is
\* closed.
C12_DisconnectClosesUpstream ==
    (pc = "done" /\ res.closed) => ~UpstreamOpen

\* C13: once the upstream body stream has closed (end or failure) with the
\* client still connected and no code of the request is left to run, the
\* downstream response is ended.
C13_UpstreamCloseEndsResponse ==
    (pc = "done" /\ up.state \in {"ended", "errored"} /\ ~res.closed)
    => res.finished

----------------------------------------------------------------------------
\* The session, the timeouts and the relayed body

\* C14: at most one bootstrap request completes successfully in the life of
\* the process, whatever the interleaving of the JSON-endpoint requests.
C14_BootstrapOnce == bootOk <= 1

C16_FirstResponseBounded == pc = "await" => out.timeout > 0

\* The body stream of an answer that is being, or was, piped to the client.
Piped ==
    /\ up.state \in {"flowing", "paused", "ended", "errored"}
    /\ up.errAt # "before"

\* C17: in a download or stream relay the chunks delivered to the client are
\* at every moment a prefix of the chunks received from the upstream, and
\* are all of them once the upstream has ended.
C17_BodyIsUpstreamPrefix ==
    Piped =>
        /\ Len(res.body) <= up.emitted
        /\ res.body = SubSeq(Chunks, 1, Len(res.body))
        /\ up.state = "ended" => Len(res.body) = up.emitted

C17_Witness ==
    /\ Piped
    /\ up.state = "ended"
    /\ res.wire = 206
    /\ up.emitted = MaxChunks
    /\ res.body = SubSeq(Chunks, 1, MaxChunks)

\* C18: a JSON-endpoint request has issued an API request only if some
\* bootstrap request has completed successfully; a request whose awaited
\* bootstrap failed has answered 500 and issued no API request.
C18_BootstrapPrecedesCall ==
    \A i \in Slots :
        /\ api[i].calls > 0 => bootOk >= 1 /\ cookiesInitialized
        /\ api[i].boot = "failed" =>
               api[i].pc = "done" /\ api[i].status = 500 /\ api[i].calls = 0

C18_Witness ==
    \E i, j \in Slots :
        /\ api[i].boot = "failed" /\ api[i].status = 500
        /\ api[j].boot = "ok" /\ api[j].calls > 0

\* The step in which the bootstrap request of some slot fails.
BootstrapFails ==
    \E i \in Slots : api[i].pc = "boot" /\ api'[i].boot = "failed"

\* C19: the step in which a bootstrap request fails leaves
\* cookiesInitialized and movieboxAppInfo as they were; a request that
\* arrives while cookiesInitialized is false sends the bootstrap request;
\* cookiesInitialized, once true, stays true.
C19_FailureNotCached ==
    [][/\ BootstrapFails => UNCHANGED <<cookiesInitialized, movieboxAppInfo>>
       /\ \A i \in Slots :
              (api[i].pc = "idle" /\ api'[i].pc # "idle" /\ ~cookiesInitialized)
                  => api'[i].pc = "boot"
       /\ cookiesInitialized => cookiesInitialized']_vars

C19_Witness ==
    /\ ~cookiesInitialized
    /\ movieboxAppInfo = Null
    /\ \E i, j \in Slots :
           /\ api[i].pc = "done" /\ api[i].boot = "failed"
           /\ api[j].pc = "boot"

\* C20: a request to /api/sources has issued its download-sources request
\* (its second API request) only if its detail request gave a non-empty
\* detailPath; one that ended without a detailPath, because the detail
\* request failed or gave none, answered 500 and issued no second request.
C20_SourcesCallsOrdered ==
    \A i \in Slots :
        api[i].endpoint = "sources" =>
            /\ api[i].calls <= 2
            /\ api[i].calls = 2 => Truthy(api[i].detailPath)
            /\ (api[i].pc = "done" /\ ~Truthy(api[i].detailPath)) =>
                   api[i].status = 500 /\ api[i].calls <= 1

C20_Witness ==
    \E i, j \in Slots :
        /\ api[i].endpoint = "sources" /\ api[i].calls = 2
        /\ api[i].pc = "done" /\ api[i].status = 200
        /\ api[j].endpoint = "sources" /\ api[j].calls = 1
        /\ api[j].pc = "done" /\ api[j].detailPath = ""

============================================================================
